---- MODULE Spec2Model ----
(***************************************************************************)
(* Model of src/mms_server.py: the /tts-stream synthesis dispatcher with   *)
(* its native-model cache, and the /detect-language identifier with its    *)
(* lazily loaded, lock-guarded classifier singleton.                       *)
(*                                                                         *)
(* External collaborators (Flask JSON parsing, the MMS model loader and    *)
(* inference, gTTS, the AfroLID pipeline) are opaque: every outcome the    *)
(* code can observe from them is a nondeterministic choice.                *)
(***************************************************************************)
EXTENDS Integers, Sequences, FiniteSets, TLC

\* ------------------------------------------------------------------ bounds

\* Worker threads serving requests concurrently.
NumWorkers == 2
\* Cap on successful native-model loads (each load makes a fresh handle).
MaxLoads == 2
\* Cap on calls of pipeline(...) that load the classifier.
MaxLoadCalls == 3
\* Longest prediction list the classifier returns in the model.
MaxPreds == 2

\* Largest audio payload (samples or bytes) a back end returns in the model.
MaxPayload == 2

Workers == 1..NumWorkers
\* The one worker that serves requests in the sequential specifications.
Sequential == {1}

VARIABLES
    MMS_AVAILABLE,                   \* module flag, fixed at import
    TRANSFORMERS_PIPELINE_AVAILABLE, \* module flag, fixed at import
    mms_models,                      \* model cache: model name -> handle
    loads,                           \* native-model loads performed so far
    tts,                             \* per worker: the /tts-stream request in progress
    afrolid_pipeline,                \* classifier singleton, 0 is None
    afrolid_lock,                    \* holder of the lock, 0 is free
    loadCalls,                       \* calls of pipeline(...) so far
    loadFailures,                    \* how many of them raised
    inLoad,                          \* workers currently inside pipeline(...)
    det                              \* per worker: the /detect-language request in progress

vars == <<MMS_AVAILABLE, TRANSFORMERS_PIPELINE_AVAILABLE, mms_models, loads, tts,
          afrolid_pipeline, afrolid_lock, loadCalls, loadFailures, inLoad, det>>

ttsVars == <<mms_models, loads, tts>>
detVars == <<afrolid_pipeline, afrolid_lock, loadCalls, loadFailures, inLoad, det>>
flagVars == <<MMS_AVAILABLE, TRANSFORMERS_PIPELINE_AVAILABLE>>

\* ------------------------------------------------------- JSON and Python

\* A JSON value as the handler sees it: its Python type and its text.
J(t, v) == [t |-> t, v |-> v]
Absent == J("absent", "")

\* A faulty Truthy: only the empty string counts as "no text".
TruthyOnlyEmptyString(j) == ~(j.t = "str" /\ j.v = "")

\* Python truthiness, as `not text` evaluates it.
Truthy(j) ==
    CASE j.t = "null" -> FALSE
      [] j.t = "bool" -> j.v = "true"
      [] j.t = "num"  -> j.v # "0"
      [] j.t = "str"  -> j.v # ""
      [] j.t = "list" -> j.v # "[]"
      [] j.t = "dict" -> j.v # "{}"

\* text[:50] works on str and list, raises TypeError/KeyError on the rest.
Sliceable(j) == j.t \in {"str", "list"}

\* dict.get(key) and `key in set` raise TypeError on an unhashable key.
Hashable(j) == j.t \notin {"list", "dict"}

\* dict.get(key, default) on the request object.
DictGet(field, default) == IF field = Absent THEN default ELSE field

\* ---------------------------------------------------------------- tables

SA_LANGUAGE_CODES ==
    [c \in {"en", "af", "zu", "xh", "nso", "tn", "st", "ts", "ss", "ve", "nr"} |->
        CASE c = "en"  -> "eng"
          [] c = "af"  -> "afr"
          [] c = "zu"  -> "zul"
          [] c = "xh"  -> "xho"
          [] c = "nso" -> "nso"
          [] c = "tn"  -> "tsn"
          [] c = "st"  -> "sot"
          [] c = "ts"  -> "tso"
          [] c = "ss"  -> "ssw"
          [] c = "ve"  -> "ven"
          [] c = "nr"  -> "nbl"]

GTTS_SUPPORTED == {"en", "af"}

\* A faulty MmsLang: no English default, the code is passed through.
MmsLangNoDefault(lang) ==
    IF lang.t = "str" /\ lang.v \in DOMAIN SA_LANGUAGE_CODES
    THEN SA_LANGUAGE_CODES[lang.v]
    ELSE lang.v

\* SA_LANGUAGE_CODES.get(lang_code, 'eng') for a hashable lang_code.
MmsLang(lang) ==
    IF lang.t = "str" /\ lang.v \in DOMAIN SA_LANGUAGE_CODES
    THEN SA_LANGUAGE_CODES[lang.v]
    ELSE "eng"

\* lang_code in GTTS_SUPPORTED for a hashable lang_code.
InGtts(lang) == lang.t = "str" /\ lang.v \in GTTS_SUPPORTED

\* ----------------------------------------------------------------- audio

\* Python None for audio_data.
NoAudio ==
    [src |-> "none", container |-> "none", header |-> FALSE, nchannels |-> 0,
     sampwidth |-> 0, framerate |-> 0, nframes |-> 0, payload |-> 0, zero |-> FALSE]

\* generate_silent_audio(): wave writes a RIFF header and the frames given;
\* the frame count is what writeframes derives from the data length.
generate_silent_audio ==
    LET sample_rate == 16000
        duration    == 1
        num_samples == sample_rate * duration
        nchannels   == 1
        sampwidth   == 2
        data_len    == 2 * num_samples      \* len(b'\x00\x00' * num_samples)
    IN  [src |-> "silence", container |-> "wav", header |-> TRUE,
         nchannels |-> nchannels, sampwidth |-> sampwidth, framerate |-> sample_rate,
         nframes |-> data_len \div (sampwidth * nchannels),
         payload |-> data_len, zero |-> TRUE]

\* What scipy.io.wavfile.write leaves in the buffer: always a header, then
\* the samples of the waveform (possibly none).
MmsAudio(samples) ==
    [src |-> "mms", container |-> "wav", header |-> TRUE, nchannels |-> 1,
     sampwidth |-> 0, framerate |-> 0, nframes |-> samples, payload |-> samples,
     zero |-> FALSE]

\* What gTTS.write_to_fp leaves in the buffer: the decoded MP3 chunks, and
\* nothing at all when the API response carried no audio chunk.
GttsAudio(bytes) ==
    [src |-> "gtts", container |-> "mp3", header |-> FALSE, nchannels |-> 0,
     sampwidth |-> 0, framerate |-> 0, nframes |-> 0, payload |-> bytes,
     zero |-> FALSE]

\* len(audio_data) > 0
NonEmpty(a) == a.header \/ a.payload > 0

\* -------------------------------------------------------- /tts-stream

\* Request bodies: no JSON at all, JSON that is no object, or an object
\* with any JSON value (or none) under "text" and "lang_code".
TextInputs ==
    {Absent, J("str", ""), J("str", "hello"), J("null", "null"), J("num", "0"),
     J("num", "123"), J("list", "[]"), J("list", "[a]"), J("dict", "{}"),
     J("dict", "{a:1}"), J("bool", "true"), J("bool", "false")}

LangInputs ==
    {Absent, J("str", "en"), J("str", "af"), J("str", "zu"), J("str", "xh"),
     J("str", "xx"), J("null", "null"), J("num", "7"), J("list", "[zu]")}

Req(shape, text, lang) == [shape |-> shape, text |-> text, lang_code |-> lang]

AllRequests ==
    {Req("no_json", Absent, Absent), Req("non_object", Absent, Absent)}
    \cup {Req("object", t, l) : t \in TextInputs, l \in LangInputs}

\* Well-formed requests, used where workers run concurrently.
PlainRequests ==
    {Req("object", J("str", "hello"), l) :
        l \in {J("str", "zu"), J("str", "xx"), J("str", "en")}}

NoReq == Req("none", Absent, Absent)
NoHandle == [tokenizer |-> 0, model |-> 0]
NoResp == [status |-> 0, mime |-> "", audio |-> NoAudio]

\* jsonify({'error': ...}), status
ErrorResp(status) == [status |-> status, mime |-> "application/json", audio |-> NoAudio]
\* Response(audio_data, mimetype=mime_type, ...)
AudioResp(audio, mime) == [status |-> 200, mime |-> mime, audio |-> audio]

TtsIdle ==
    [pc |-> "idle", req |-> NoReq, text |-> Absent, lang_code |-> Absent,
     mms_lang |-> "", audio |-> NoAudio, handle |-> NoHandle, resp |-> NoResp,
     nativeTried |-> FALSE, nativeOk |-> FALSE, cloudTried |-> FALSE,
     cloudOk |-> FALSE, cachedAtStart |-> FALSE, sizes |-> {}]

\* f"facebook/mms-tts-{lang_code}"
ModelName(mms_lang) == <<"facebook/mms-tts-", mms_lang>>

\* A faulty CacheMiss: the cache is never consulted.
CacheMissAlways(cache, name) == TRUE

\* model_name not in mms_models
CacheMiss(cache, name) == name \notin DOMAIN cache

\* mms_models[model_name] = (tokenizer, model)
CacheStore(cache, name, handle) ==
    [n \in DOMAIN cache \cup {name} |-> IF n = name THEN handle ELSE cache[n]]

\* The guard of the native stage, line 393.
UseNative(available, lang) == available /\ ~InGtts(lang)

\* A faulty UseCloud: the cloud API is tried after any native failure.
UseCloudAfterAnyFailure(audio, lang) == audio = NoAudio

\* The guard of the cloud stage, line 399.
UseCloud(audio, lang) == audio = NoAudio /\ InGtts(lang)

\* text_to_speech_stream, lines 374-393: parse, validate, pick the first stage.
\* sizes: the payload sizes the back ends may hand back while serving req.
TtsBegin(w, req, sizes) ==
    /\ tts[w].pc = "idle"
    /\ LET text == DictGet(req.text, J("str", ""))
           lang == DictGet(req.lang_code, J("str", "en"))
           fail(status) ==
               [tts[w] EXCEPT !.pc = "done", !.req = req, !.resp = ErrorResp(status)]
       IN  tts' = [tts EXCEPT ![w] =
             IF req.shape # "object" THEN fail(500)        \* request.json / data.get raise
             ELSE IF ~Truthy(text) THEN fail(400)
             ELSE IF ~Sliceable(text) THEN fail(500)       \* text[:50] raises
             ELSE IF ~Hashable(lang) THEN fail(500)        \* SA_LANGUAGE_CODES.get raises
             ELSE [tts[w] EXCEPT
                     !.req = req, !.text = text, !.lang_code = lang, !.sizes = sizes,
                     !.mms_lang = MmsLang(lang),
                     !.nativeTried = UseNative(MMS_AVAILABLE, lang),
                     !.cachedAtStart = UseNative(MMS_AVAILABLE, lang)
                         /\ ModelName(MmsLang(lang)) \in DOMAIN mms_models,
                     !.pc = IF UseNative(MMS_AVAILABLE, lang)
                            THEN "mms_check" ELSE "stage2"]]
    /\ UNCHANGED <<mms_models, loads, flagVars, detVars>>

\* generate_tts_mms, lines 309-317: availability and the cache test.
MmsCheck(w) ==
    /\ tts[w].pc = "mms_check"
    /\ tts' = [tts EXCEPT ![w].pc =
          IF ~MMS_AVAILABLE THEN "stage2"
          ELSE IF CacheMiss(mms_models, ModelName(tts[w].mms_lang))
               THEN "mms_load" ELSE "mms_read"]
    /\ UNCHANGED <<mms_models, loads, flagVars, detVars>>

\* generate_tts_mms, lines 319-320: load tokenizer and model; either may raise.
MmsLoad(w) ==
    /\ tts[w].pc = "mms_load"
    /\ \E ok \in BOOLEAN :
         IF ok /\ loads < MaxLoads
         THEN /\ loads' = loads + 1
              /\ tts' = [tts EXCEPT ![w].pc = "mms_store",
                                    ![w].handle = [tokenizer |-> loads + 1,
                                                   model |-> loads + 1]]
         ELSE /\ loads' = loads
              /\ tts' = [tts EXCEPT ![w].pc = "stage2", ![w].audio = NoAudio]
    /\ UNCHANGED <<mms_models, flagVars, detVars>>

\* generate_tts_mms, line 321: publish the pair in the cache.
MmsStore(w) ==
    /\ tts[w].pc = "mms_store"
    /\ mms_models' = CacheStore(mms_models, ModelName(tts[w].mms_lang), tts[w].handle)
    /\ tts' = [tts EXCEPT ![w].pc = "mms_infer"]
    /\ UNCHANGED <<loads, flagVars, detVars>>

\* generate_tts_mms, line 324: take the cached pair (KeyError if it is gone).
MmsRead(w) ==
    /\ tts[w].pc = "mms_read"
    /\ LET name == ModelName(tts[w].mms_lang)
       IN  tts' = [tts EXCEPT ![w] =
             IF name \in DOMAIN mms_models
             THEN [tts[w] EXCEPT !.pc = "mms_infer", !.handle = mms_models[name]]
             ELSE [tts[w] EXCEPT !.pc = "stage2", !.audio = NoAudio]]
    /\ UNCHANGED <<mms_models, loads, flagVars, detVars>>

\* generate_tts_mms, lines 328-349: inference and WAV encoding; any
\* exception is caught and None returned.
MmsInfer(w) ==
    /\ tts[w].pc = "mms_infer"
    /\ \E raised \in BOOLEAN, samples \in tts[w].sizes :
         tts' = [tts EXCEPT ![w].pc = "stage2",
                            ![w].handle = NoHandle,
                            ![w].audio = IF raised THEN NoAudio ELSE MmsAudio(samples)]
    /\ UNCHANGED <<mms_models, loads, flagVars, detVars>>

\* generate_tts_gtts: None when gTTS raises, else whatever it wrote.
generate_tts_gtts(raised, bytes) == IF raised THEN NoAudio ELSE GttsAudio(bytes)

\* The silence stage, lines 406-409.
SilenceIfNone(audio) == IF audio = NoAudio THEN generate_silent_audio ELSE audio

\* text_to_speech_stream, lines 398-419: cloud stage, silence stage, response.
TtsFinish(w) ==
    /\ tts[w].pc = "stage2"
    /\ \E raised \in BOOLEAN, bytes \in tts[w].sizes :
         LET cloud  == UseCloud(tts[w].audio, tts[w].lang_code)
             audio2 == IF cloud THEN generate_tts_gtts(raised, bytes) ELSE tts[w].audio
             mime2  == IF cloud THEN "audio/mpeg" ELSE "audio/wav"
             audio3 == SilenceIfNone(audio2)
             mime3  == IF audio2 = NoAudio THEN "audio/wav" ELSE mime2
         IN  tts' = [tts EXCEPT ![w].pc = "done", ![w].cloudTried = cloud,
                                ![w].nativeOk = tts[w].audio # NoAudio,
                                ![w].cloudOk = cloud /\ audio2 # NoAudio,
                                ![w].audio = audio3,
                                ![w].resp = AudioResp(audio3, mime3)]
    /\ UNCHANGED <<mms_models, loads, flagVars, detVars>>

\* The response has been sent; the worker takes the next request.
TtsReturn(w) ==
    /\ tts[w].pc = "done"
    /\ tts' = [tts EXCEPT ![w] = TtsIdle]
    /\ UNCHANGED <<mms_models, loads, flagVars, detVars>>

\* ------------------------------------------------ claims on /tts-stream

\* The request worker w has answered, as the client wrote it.
Answered(w) == tts[w].pc = "done"
ReqText(w) == tts[w].req.text
ReqLang(w) == IF tts[w].req.lang_code = Absent THEN J("str", "en") ELSE tts[w].req.lang_code
IsObject(w) == tts[w].req.shape = "object"
NonEmptyString(j) == j.t = "str" /\ j.v # ""
AudioMimes == {"audio/wav", "audio/mpeg"}
CloudSet == {"en", "af"}
InCloudSet(j) == j.t = "str" /\ j.v \in CloudSet
ProfileCodes == {"en", "af", "zu", "xh", "nso", "tn", "st", "ts", "ss", "ve", "nr"}

\* C1: every /tts-stream request with non-empty text gets HTTP 200 with a
\* non-empty audio body and Content-Type audio/wav or audio/mpeg, whatever
\* the back ends do.  Stated here for string (or absent) lang_code only,
\* which the claim includes; the code breaks it when gTTS writes no bytes.
C1_NonEmptyAudioAlways ==
    \A w \in Workers :
        (Answered(w) /\ IsObject(w) /\ NonEmptyString(ReqText(w)) /\ ReqLang(w).t = "str")
        => /\ tts[w].resp.status = 200
           /\ tts[w].resp.mime \in AudioMimes
           /\ NonEmpty(tts[w].resp.audio)

\* C2 as stated: 400 exactly when text is missing or empty, and every other
\* request, whatever its body shape or lang_code, gets 200 with audio.
C2_OnlyEmptyTextFails ==
    \A w \in Workers :
        Answered(w) =>
            LET missingOrEmpty ==
                    ~IsObject(w) \/ ReqText(w) = Absent \/ ReqText(w) = J("str", "")
            IN  /\ tts[w].resp.status = 400 <=> missingOrEmpty
                /\ ~missingOrEmpty =>
                      tts[w].resp.status = 200 /\ tts[w].resp.mime \in AudioMimes

\* The JSON values Python treats as false.
FalsyJson ==
    {J("str", ""), J("null", "null"), J("num", "0"), J("list", "[]"),
     J("dict", "{}"), J("bool", "false")}

\* C2 as amended: 400 exactly for an object body whose text is missing or
\* falsy; 500 exactly for a body that is no JSON object, a truthy text that
\* is neither string nor list, or an accepted text with a list/object
\* lang_code; every other request gets 200 with an audio Content-Type,
\* whatever the native and cloud back ends do.
C2_ErrorPaths ==
    \A w \in Workers :
        Answered(w) =>
            LET falsy   == IsObject(w) /\ (ReqText(w) = Absent \/ ReqText(w) \in FalsyJson)
                crashes == \/ ~IsObject(w)
                           \/ /\ ~falsy
                              /\ \/ ReqText(w).t \notin {"str", "list"}
                                 \/ ReqLang(w).t \in {"list", "dict"}
            IN  /\ tts[w].resp.status = 400 <=> falsy
                /\ tts[w].resp.status = 500 <=> crashes
                /\ (~falsy /\ ~crashes) =>
                      tts[w].resp.status = 200 /\ tts[w].resp.mime \in AudioMimes
                /\ tts[w].resp.status \in {200, 400, 500}

\* C2 witness: a request whose native load failed was still answered 200.
C2_Witness ==
    \E w \in Workers :
        /\ Answered(w) /\ tts[w].nativeTried /\ ~tts[w].nativeOk
        /\ tts[w].resp.status = 200 /\ tts[w].resp.audio.src = "silence"

\* The cache holds whole pairs; a started-with-entry synthesis is never in
\* the load or store step; inference runs on a whole pair.
C7_CacheInv ==
    /\ \A n \in DOMAIN mms_models :
          mms_models[n].tokenizer \in 1..loads /\ mms_models[n].model = mms_models[n].tokenizer
    /\ \A w \in Workers :
          /\ tts[w].cachedAtStart => tts[w].pc \notin {"mms_load", "mms_store"}
          /\ tts[w].pc = "mms_infer" =>
                /\ tts[w].handle.tokenizer \in 1..loads
                /\ tts[w].handle.model = tts[w].handle.tokenizer
          \* the pair a started-with-entry synthesis infers with has been
          \* stored: it is no pair still waiting for its store
          /\ (tts[w].cachedAtStart /\ tts[w].pc = "mms_infer") =>
                \A v \in Workers :
                    tts[v].pc = "mms_store" => tts[v].handle # tts[w].handle

\* No step removes a key of the cache.
C7_NeverEvicted == \A n \in DOMAIN mms_models : n \in DOMAIN mms_models'

\* C7: a cache entry once inserted is never removed and always holds a whole
\* (tokenizer, model) pair; a native synthesis that starts with the entry
\* present never loads a model, and inference always runs on a whole pair
\* that some load produced.
C7_PopulateOnce == []C7_CacheInv /\ [][C7_NeverEvicted]_vars

\* C7 witness: a synthesis that found the entry at its start is inferring
\* with the cached pair while another worker, which missed the cache
\* earlier, is about to overwrite the same slot.
C7_Witness ==
    \E w, v \in Workers :
        /\ w # v
        /\ tts[w].cachedAtStart /\ tts[w].pc = "mms_infer"
        /\ tts[v].pc = "mms_store" /\ tts[v].mms_lang = tts[w].mms_lang
        /\ tts[w].handle = mms_models[ModelName(tts[w].mms_lang)]

UnknownCode(j) == j.t \notin {"list", "dict"} /\ ~(j.t = "str" /\ j.v \in ProfileCodes)

C9_EnUsesCloud ==
    \A w \in Workers :
        (Answered(w) /\ IsObject(w) /\ NonEmptyString(ReqText(w))
                     /\ ReqLang(w) = J("str", "en"))
        => ~tts[w].nativeTried /\ tts[w].cloudTried

Chars(j) == j.v

\* str(value) for the JSON values a client can put under "text".
PyStr(j) ==
    CASE j.t = "null" -> <<"N", "o", "n", "e">>
      [] OTHER        -> Chars(j)

RECURSIVE LStrip(_)
LStrip(s) == IF s # <<>> /\ Head(s) = " " THEN LStrip(Tail(s)) ELSE s

RECURSIVE RStrip(_)
RStrip(s) ==
    IF s # <<>> /\ s[Len(s)] = " " THEN RStrip(SubSeq(s, 1, Len(s) - 1)) ELSE s

\* str.strip()
Strip(s) == RStrip(LStrip(s))

SA_LANGUAGE_METADATA ==
    [c \in {"en", "af", "zu", "xh", "nso", "tn", "st", "ts", "ss", "ve", "nr"} |->
        CASE c = "en"  -> [name |-> "English", afrolid_labels |-> {"eng"},
                           greetings |-> <<"Hello!", "Good day!", "Howzit!">>]
          [] c = "af"  -> [name |-> "Afrikaans", afrolid_labels |-> {"afr"},
                           greetings |-> <<"Hallo!", "Goeie dag!", "Howzit!">>]
          [] c = "zu"  -> [name |-> "Zulu", afrolid_labels |-> {"zul"},
                           greetings |-> <<"Sawubona!", "Sanibonani!", "Yebo!">>]
          [] c = "xh"  -> [name |-> "Xhosa", afrolid_labels |-> {"xho"},
                           greetings |-> <<"Molo!", "Molweni!", "Ewe!">>]
          [] c = "nso" -> [name |-> "Sepedi", afrolid_labels |-> {"nso"},
                           greetings |-> <<"Dumela!", "Thobela!", "Ee!">>]
          [] c = "tn"  -> [name |-> "Setswana", afrolid_labels |-> {"tsn"},
                           greetings |-> <<"Dumela!", "Dumelang!", "Ee rra!">>]
          [] c = "st"  -> [name |-> "Sesotho", afrolid_labels |-> {"sot"},
                           greetings |-> <<"Dumela!", "Dumelang!", "Kea leboha!">>]
          [] c = "ts"  -> [name |-> "Xitsonga", afrolid_labels |-> {"tso"},
                           greetings |-> <<"Avuxeni!", "Xewani!", "Ina!">>]
          [] c = "ss"  -> [name |-> "siSwati", afrolid_labels |-> {"ssw"},
                           greetings |-> <<"Sawubona!", "Sanibonani!", "Yebo make!">>]
          [] c = "ve"  -> [name |-> "Tshivenda", afrolid_labels |-> {"ven"},
                           greetings |-> <<"Ndaa!", "Matsheloni!", "Vho-vho!">>]
          [] c = "nr"  -> [name |-> "isiNdebele", afrolid_labels |-> {"nbl"},
                           greetings |-> <<"Lotjhani!", "Salibonani!", "Yebo baba!">>]]

\* AFROLID_LABEL_TO_CODE.get(label): the code whose labels hold it, "" for None.
AFROLID_LABEL_TO_CODE(label) ==
    LET codes == {c \in DOMAIN SA_LANGUAGE_METADATA :
                     label \in SA_LANGUAGE_METADATA[c].afrolid_labels}
    IN  IF codes = {} THEN "" ELSE CHOOSE c \in codes : TRUE

\* SA_LANGUAGE_METADATA.get(code, SA_LANGUAGE_METADATA['en'])
get_language_metadata(code) ==
    IF code \in DOMAIN SA_LANGUAGE_METADATA
    THEN SA_LANGUAGE_METADATA[code] ELSE SA_LANGUAGE_METADATA["en"]

get_language_name(code) == get_language_metadata(code).name

\* _get_greetings(code): the list random.choice draws from.
get_greetings(code) ==
    LET g == get_language_metadata(code).greetings
    IN  IF g # <<>> THEN g ELSE <<"Hello!">>

\* random.choice(seq), the random draw being r.
Choice(seq, r) == seq[(r % Len(seq)) + 1]
\* The draws of the random source.
Draws == {0, 1, 2}

\* Confidences and candidate scores are in hundredths of a percent; raw
\* scores are fractions in units of 0.00001, percentages before rounding
\* are in units of 0.00001 percent.
FallbackConfidence == 55 * 100           \* 55.0

\* The model field of a result.
ModelField == IF TRANSFORMERS_PIPELINE_AVAILABLE THEN "AFROLID_MODEL_ID" ELSE "None"

\* _fallback_detection(reason, candidates), the random draw being r.
fallback_detection(reason, candidates, r) ==
    [status |-> 200, language |-> get_language_name("en"), code |-> "en",
     confidence |-> FallbackConfidence, greeting |-> Choice(get_greetings("en"), r),
     source |-> "fallback",
     model |-> ModelField, reason |-> reason, candidates |-> candidates,
     error |-> ""]

\* An unhandled exception in the view: Flask answers 500.
ServerError ==
    [status |-> 500, language |-> "", code |-> "", confidence |-> 0, greeting |-> "",
     source |-> "", model |-> "", reason |-> "", candidates |-> <<>>,
     error |-> "Internal Server Error"]

NoResult ==
    [status |-> 0, language |-> "", code |-> "", confidence |-> 0, greeting |-> "",
     source |-> "", model |-> "", reason |-> "", candidates |-> <<>>, error |-> ""]

\* str.lower() on the labels the classifier returns in the model.
Lower(label) ==
    CASE label = "ENG" -> "eng"
      [] label = "ZUL" -> "zul"
      [] OTHER         -> label

Max(a, b) == IF a >= b THEN a ELSE b
Min(a, b) == IF a <= b THEN a ELSE b

\* round(x, 2): from units of 0.00001 to hundredths, ties to even.
Round2(x) ==
    LET q == x \div 1000
        r == x % 1000
    IN  IF r < 500 THEN q
        ELSE IF r > 500 THEN q + 1
        ELSE IF q % 2 = 0 THEN q ELSE q + 1

\* max(min(score_fraction * 100.0, 100.0), 0.0), line 258.
ScorePercent(score_fraction) == Max(Min(score_fraction * 100, 100 * 100000), 0)

\* A faulty ReportedConfidence: the clamp to 99.0 is forgotten.
ReportedConfidenceUnclamped(best_confidence) == Round2(best_confidence)

\* round(min(best_confidence, 99.0), 2), line 283.
ReportedConfidence(best_confidence) == Round2(Min(best_confidence, 99 * 100000))

\* One prediction as the classifier hands it over: a dict whose label and
\* score may be missing or of the wrong type, or something that is no dict.
Pred(label, score) == [kind |-> "dict", label |-> label, scoreKind |-> "num", score |-> score]
MissingLabel == "<missing>"
PredNoScore(label) == [kind |-> "dict", label |-> label, scoreKind |-> "missing", score |-> 0]
PredNullScore(label) == [kind |-> "dict", label |-> label, scoreKind |-> "none", score |-> 0]
PredNotDict == [kind |-> "str", label |-> MissingLabel, scoreKind |-> "missing", score |-> 0]

\* item.get('label', ...) and float(item.get('score', 0.0)) raise on these.
ItemRaises(item) == item.kind # "dict" \/ item.scoreKind = "none"

\* The selection starts from no code and confidence 0.0, lines 251-253.
ScanStart == [best_code |-> "", best_confidence |-> 0, candidates |-> <<>>]

\* The test that makes a mapped prediction the best so far, line 270.
Better(score_percent, best_confidence) == score_percent > best_confidence

\* One pass of the loop body, lines 256-274.
ScanItem(acc, item) ==
    LET label_value    == Lower(IF item.label = MissingLabel THEN "" ELSE item.label)
        score_fraction == IF item.scoreKind = "missing" THEN 0 ELSE item.score
        score_percent  == ScorePercent(score_fraction)
        mapped_code    == AFROLID_LABEL_TO_CODE(label_value)
        payload        == [label |-> label_value, score |-> Round2(score_percent),
                           code |-> mapped_code,
                           language |-> IF mapped_code # ""
                                        THEN get_language_name(mapped_code) ELSE ""]
        take           == mapped_code # "" /\ Better(score_percent, acc.best_confidence)
    IN  [best_code       |-> IF take THEN mapped_code ELSE acc.best_code,
         best_confidence |-> IF take THEN score_percent ELSE acc.best_confidence,
         candidates      |-> Append(acc.candidates, payload)]

RECURSIVE Scan(_, _)
Scan(acc, predictions) ==
    IF predictions = <<>> THEN acc
    ELSE Scan(ScanItem(acc, Head(predictions)), Tail(predictions))

\* What pipeline_instance(text, top_k=...) gives back: an exception, a
\* falsy value (None, []), a flat list of predictions, a list holding one
\* list of predictions, or a single prediction that is no list.
RawRaise == [shape |-> "raise", value |-> <<>>]
RawFalsy == [shape |-> "falsy", value |-> <<>>]
RawFlat(items) == [shape |-> "flat", value |-> items]
RawNested(items) == [shape |-> "nested", value |-> <<items>>]
RawSingle(item) == [shape |-> "single", value |-> item]

\* The normalisation of lines 244-249.
Normalize(raw) ==
    CASE raw.shape = "nested" -> raw.value[1]
      [] raw.shape = "flat"   -> raw.value
      [] OTHER                -> <<raw.value>>

\* detect_language_afrolid, lines 234-288, once the pipeline is at hand;
\* r is the random draw of the greeting.
Classified(raw, r) ==
    IF raw.shape = "raise" THEN fallback_detection("pipeline_runtime_error", <<>>, r)
    ELSE IF raw.shape = "falsy" THEN fallback_detection("no_predictions", <<>>, r)
    ELSE LET predictions == Normalize(raw)
             acc == Scan(ScanStart, predictions)
         IN  IF \E i \in 1..Len(predictions) : ItemRaises(predictions[i])
             THEN ServerError
             ELSE IF acc.best_code = ""
             THEN fallback_detection("no_supported_language", acc.candidates, r)
             ELSE [status |-> 200, language |-> get_language_name(acc.best_code),
                   code |-> acc.best_code,
                   confidence |-> ReportedConfidence(acc.best_confidence),
                   greeting |-> Choice(get_greetings(acc.best_code), r),
                   source |-> "afrolid", model |-> "AFROLID_MODEL_ID", reason |-> "",
                   candidates |-> acc.candidates, error |-> ""]

\* Inputs of the model: labels (one in upper case, one the table does not
\* know), raw scores in units of 0.00001 (from -0.5 to 1.5), predictions.
Labels == {"zul", "ENG", "fra"}
Scores == {-50000, 0, 1, 12345, 98996, 150000}
Items ==
    {Pred(l, sc) : l \in Labels, sc \in Scores}
    \cup {PredNoScore("zul"), Pred(MissingLabel, 12345), PredNullScore("zul"), PredNotDict}

RECURSIVE SeqsUpTo(_, _)
SeqsUpTo(S, n) ==
    IF n = 0 THEN {<<>>}
    ELSE LET shorter == SeqsUpTo(S, n - 1)
         IN  shorter \cup {Append(q, x) : q \in {t \in shorter : Len(t) = n - 1}, x \in S}

\* Everything the classifier may answer, and the answers used where
\* workers run concurrently.
ClassifierOutputs(envelope) ==
    IF envelope = "all"
    THEN {RawRaise, RawFalsy}
         \cup {RawFlat(q) : q \in SeqsUpTo(Items, MaxPreds) \ {<<>>}}
         \cup {RawNested(q) : q \in SeqsUpTo(Items, 1)}
         \cup {RawSingle(x) : x \in {Pred("zul", 12345), PredNotDict}}
    ELSE {RawRaise, RawFlat(<<Pred("zul", 98996)>>)}

\* Bodies of POST /detect-language: no JSON, a falsy JSON value that is no
\* object, a truthy one, or an object with some value (or none) under
\* "text".
DetReq(shape, text) == [shape |-> shape, text |-> text]
DetTexts ==
    {Absent, J("str", <<>>), J("str", <<" ">>), J("str", <<"a">>),
     J("str", <<" ", "a", "b", " ">>), J("str", <<"a", "b", "c">>),
     J("str", <<" ", "a", " ", "b", " ">>), J("null", <<>>), J("num", <<"7">>)}
AllDetRequests ==
    {DetReq("no_json", Absent), DetReq("falsy_non_object", Absent),
     DetReq("truthy_non_object", Absent)}
    \cup {DetReq("object", t) : t \in DetTexts}
PlainDetRequests == {DetReq("object", J("str", <<"a", "b", "c">>))}

DetIdle ==
    [pc |-> "idle", req |-> DetReq("none", Absent), text |-> <<>>, envelope |-> "",
     pipeline_instance |-> 0, result |-> NoResult, raw |-> RawFalsy,
     afterFailure |-> FALSE, sawLoaded |-> 0]

otherDet == <<flagVars, ttsVars>>

\* detect_language_endpoint and detect_language_afrolid up to line 228.
DetBegin(w, req, envelope) ==
    /\ det[w].pc = "idle"
    /\ \E r \in Draws :
         LET text    == IF req.shape = "object"
                        THEN Strip(PyStr(DictGet(req.text, J("str", <<>>))))
                        ELSE <<>>                 \* get_json(silent=True) or {}
             cleaned == Strip(text)
             answer(res) == [det[w] EXCEPT !.pc = "done", !.req = req, !.result = res]
         IN  det' = [det EXCEPT ![w] =
               IF req.shape = "truthy_non_object" THEN answer(ServerError)   \* data.get raises
               ELSE IF text = <<>>
               THEN answer([fallback_detection("empty_text", <<>>, r)
                               EXCEPT !.error = "Text is required"])
               ELSE IF Len(cleaned) < 3
               THEN answer(fallback_detection("insufficient_text", <<>>, r))
               ELSE [det[w] EXCEPT !.pc = "ld_start", !.req = req, !.text = cleaned,
                                   !.envelope = envelope,
                                   !.afterFailure = loadFailures > 0,
                                   !.sawLoaded = afrolid_pipeline]]
    /\ UNCHANGED <<afrolid_pipeline, afrolid_lock, loadCalls, loadFailures, inLoad, otherDet>>

\* _load_afrolid_pipeline, lines 202-205: the two unlocked tests.
LoadStart(w) ==
    /\ det[w].pc = "ld_start"
    /\ det' = [det EXCEPT ![w] =
          IF ~TRANSFORMERS_PIPELINE_AVAILABLE
          THEN [det[w] EXCEPT !.pc = "have_instance", !.pipeline_instance = 0]
          ELSE IF afrolid_pipeline # 0
          THEN [det[w] EXCEPT !.pc = "ld_fast_return"]
          ELSE [det[w] EXCEPT !.pc = "ld_acquire"]]
    /\ UNCHANGED <<afrolid_pipeline, afrolid_lock, loadCalls, loadFailures, inLoad, otherDet>>

\* line 206: return afrolid_pipeline, read again.
LoadFastReturn(w) ==
    /\ det[w].pc = "ld_fast_return"
    /\ det' = [det EXCEPT ![w].pc = "have_instance",
                          ![w].pipeline_instance = afrolid_pipeline]
    /\ UNCHANGED <<afrolid_pipeline, afrolid_lock, loadCalls, loadFailures, inLoad, otherDet>>

\* line 208: with afrolid_lock, blocking until it is free.
LoadAcquire(w) ==
    /\ det[w].pc = "ld_acquire"
    /\ afrolid_lock = 0
    /\ afrolid_lock' = w
    /\ det' = [det EXCEPT ![w].pc = "ld_locked"]
    /\ UNCHANGED <<afrolid_pipeline, loadCalls, loadFailures, inLoad, otherDet>>

\* The test under the lock that decides whether to load, line 209.
NeedsLoad(current) == current = 0

\* lines 209-212: the test under the lock and the entry into pipeline(...).
LoadCall(w) ==
    /\ det[w].pc = "ld_locked"
    /\ IF NeedsLoad(afrolid_pipeline)
       THEN /\ loadCalls < MaxLoadCalls
            /\ loadCalls' = loadCalls + 1
            /\ inLoad' = inLoad \cup {w}
            /\ det' = [det EXCEPT ![w].pc = "ld_calling"]
       ELSE /\ det' = [det EXCEPT ![w].pc = "ld_release"]
            /\ UNCHANGED <<loadCalls, inLoad>>
    /\ UNCHANGED <<afrolid_pipeline, afrolid_lock, loadFailures, otherDet>>

\* What the except branch leaves in afrolid_pipeline, line 221.
AfterFailedLoad == 0

\* lines 212-221: pipeline(...) returns the instance or raises.
LoadDone(w) ==
    /\ det[w].pc = "ld_calling"
    /\ \E ok \in BOOLEAN :
         /\ afrolid_pipeline' = IF ok THEN loadCalls ELSE AfterFailedLoad
         /\ loadFailures' = IF ok THEN loadFailures ELSE loadFailures + 1
    /\ inLoad' = inLoad \ {w}
    /\ det' = [det EXCEPT ![w].pc = "ld_release"]
    /\ UNCHANGED <<afrolid_lock, loadCalls, otherDet>>

\* The end of the with block.
LoadRelease(w) ==
    /\ det[w].pc = "ld_release"
    /\ afrolid_lock' = 0
    /\ det' = [det EXCEPT ![w].pc = "ld_return"]
    /\ UNCHANGED <<afrolid_pipeline, loadCalls, loadFailures, inLoad, otherDet>>

\* line 223: return afrolid_pipeline.
LoadReturn(w) ==
    /\ det[w].pc = "ld_return"
    /\ det' = [det EXCEPT ![w].pc = "have_instance",
                          ![w].pipeline_instance = afrolid_pipeline]
    /\ UNCHANGED <<afrolid_pipeline, afrolid_lock, loadCalls, loadFailures, inLoad, otherDet>>

\* detect_language_afrolid, lines 231-288, and the endpoint's jsonify.
Classify(w) ==
    /\ det[w].pc = "have_instance"
    /\ \E r \in Draws, raw \in ClassifierOutputs(det[w].envelope) :
         det' = [det EXCEPT ![w].pc = "done",
                            ![w].raw = IF det[w].pipeline_instance = 0 THEN RawFalsy ELSE raw,
                            ![w].result =
                               IF det[w].pipeline_instance = 0
                               THEN fallback_detection("pipeline_unavailable", <<>>, r)
                               ELSE Classified(raw, r)]
    /\ UNCHANGED <<afrolid_pipeline, afrolid_lock, loadCalls, loadFailures, inLoad, otherDet>>

\* The response has been sent; the worker takes the next request.
DetReturn(w) ==
    /\ det[w].pc = "done"
    /\ det' = [det EXCEPT ![w] = DetIdle]
    /\ UNCHANGED <<afrolid_pipeline, afrolid_lock, loadCalls, loadFailures, inLoad, otherDet>>

\* -------------------------------------------- claims on /detect-language

DetAnswered(w) == det[w].pc = "done"

\* The request reached the classifier, which answered with predictions
\* that are all dicts with a numeric (or no) score.
GotPredictions(w) ==
    /\ DetAnswered(w) /\ det[w].pipeline_instance # 0
    /\ det[w].raw.shape \in {"flat", "nested", "single"}
    /\ LET preds == Normalize(det[w].raw)
       IN  \A i \in 1..Len(preds) :
              preds[i].kind = "dict" /\ preds[i].scoreKind \in {"num", "missing"}

\* The alias table and the clamped percentage as the claims read them.
AliasCode(label) ==
    CASE label \in {"zul", "ZUL"} -> "zu"
      [] label \in {"eng", "ENG"} -> "en"
      [] OTHER                    -> ""
ClampedPercent(p) ==
    LET raw == IF p.scoreKind = "missing" THEN 0 ELSE p.score * 100
    IN  IF raw < 0 THEN 0 ELSE IF raw > 10000000 THEN 10000000 ELSE raw

\* The two halves of C3: no load call after a failed one, and the fallback
\* for every call that began after a failed load.
C3_NoReloadStep == loadFailures > 0 => loadCalls' = loadCalls
C3_LaterUnavailable ==
    \A w \in Workers :
        (DetAnswered(w) /\ det[w].afterFailure)
        => det[w].result.source = "fallback" /\ det[w].result.reason = "pipeline_unavailable"

\* C3: once a load of the classifier has failed, no later call loads again,
\* and every later call with 3 or more characters answers the fallback
\* with reason 'pipeline_unavailable'.
C3_FailureCached == []C3_LaterUnavailable /\ [][C3_NoReloadStep]_vars

\* C4: at most one thread is inside the load call at any time, the load is
\* called at most once in the process lifetime, and every caller that gets
\* an instance gets the one loaded instance.
C4_LoadedAtMostOnce ==
    /\ Cardinality(inLoad) <= 1
    /\ loadCalls <= 1
    /\ \A w \in Workers :
          det[w].pipeline_instance # 0 => det[w].pipeline_instance = afrolid_pipeline

\* What of C4 the lock does give: one thread in the load at a time, at most
\* one load that succeeds, one instance for all callers, and no caller that
\* saw the instance at its start left without it.
C4_LockLemma ==
    /\ Cardinality(inLoad) <= 1
    /\ loadCalls - loadFailures <= 1 + Cardinality(inLoad)
    /\ afrolid_pipeline # 0 => loadCalls - loadFailures - Cardinality(inLoad) = 1
    /\ \A w \in Workers :
          /\ det[w].pipeline_instance # 0 => det[w].pipeline_instance = afrolid_pipeline
          /\ (det[w].pc \in {"have_instance", "done"} /\ det[w].sawLoaded # 0
                 /\ det[w].req.shape = "object" /\ Len(det[w].text) >= 3)
             => det[w].pipeline_instance = det[w].sawLoaded

\* C5: when the classifier answers and some prediction's label is in the
\* alias table, the result has source 'afrolid' and the code of a mapped
\* prediction whose clamped score is the highest among the mapped ones;
\* 'no_supported_language' is answered only when no label maps.
C5_SelectsBestMapped ==
    \A w \in Workers :
        GotPredictions(w) =>
            LET preds  == Normalize(det[w].raw)
                mapped == {i \in 1..Len(preds) : AliasCode(preds[i].label) # ""}
                res    == det[w].result
            IN  /\ mapped # {} =>
                      /\ res.source = "afrolid"
                      /\ \E i \in mapped :
                            /\ res.code = AliasCode(preds[i].label)
                            /\ \A j \in mapped :
                                  ClampedPercent(preds[j]) <= ClampedPercent(preds[i])
                /\ res.reason = "no_supported_language" => mapped = {}

\* C6: POST /detect-language answers 200 for every body and every
\* classifier behaviour, and the fixed fallback (en, 55.0, fallback)
\* whenever the text is shorter than 3 characters or the classifier is
\* unavailable, raises or returns nothing.
C6_SoftFail ==
    \A w \in Workers :
        DetAnswered(w) =>
            /\ det[w].result.status = 200
            /\ (\/ Len(det[w].text) < 3
                \/ det[w].pipeline_instance = 0
                \/ det[w].raw.shape \in {"raise", "falsy"})
               => /\ det[w].result.code = "en"
                  /\ det[w].result.confidence = 5500
                  /\ det[w].result.source = "fallback"

\* The part of C6 the code keeps: the fixed fallback on every soft-fail path.
C6_FallbackLemma ==
    \A w \in Workers :
        (DetAnswered(w) /\ det[w].req.shape # "truthy_non_object"
            /\ (\/ Len(det[w].text) < 3
                \/ det[w].pipeline_instance = 0
                \/ det[w].raw.shape \in {"raise", "falsy"}))
        => /\ det[w].result.status = 200
           /\ det[w].result.code = "en"
           /\ det[w].result.confidence = 5500
           /\ det[w].result.source = "fallback"

\* C10: every DetectionResult has a confidence in [0, 99.0] (in hundredths:
\* 0..9900); a fallback reports 55.0, and the classifier path reports the
\* percentage score of the selected candidate, the highest among the
\* mapped candidates, clamped to 99.0.
C10_ConfidenceRange ==
    \A w \in Workers :
        (DetAnswered(w) /\ det[w].result.status = 200) =>
            LET res == det[w].result
                cs  == res.candidates
            IN  /\ res.confidence >= 0 /\ res.confidence <= 9900
                /\ res.source = "fallback" => res.confidence = 5500
                /\ res.source = "afrolid" =>
                      \E i \in 1..Len(cs) :
                         /\ cs[i].code = res.code
                         /\ res.confidence = IF cs[i].score > 9900 THEN 9900 ELSE cs[i].score
                         /\ \A j \in 1..Len(cs) : cs[j].code # "" => cs[j].score <= cs[i].score

\* C10 witness: a selected prediction with raw score 1.5 is reported at 99.0.
C10_Witness ==
    \E w \in Workers :
        /\ DetAnswered(w) /\ det[w].result.source = "afrolid"
        /\ det[w].result.confidence = 9900
        /\ \E i \in 1..Len(Normalize(det[w].raw)) :
              Normalize(det[w].raw)[i].score = 150000

\* ------------------------------------------------------- specifications

Init ==
    /\ MMS_AVAILABLE \in BOOLEAN
    /\ TRANSFORMERS_PIPELINE_AVAILABLE \in BOOLEAN
    /\ mms_models = <<>>
    /\ loads = 0
    /\ tts = [w \in Workers |-> TtsIdle]
    /\ afrolid_pipeline = 0
    /\ afrolid_lock = 0
    /\ loadCalls = 0
    /\ loadFailures = 0
    /\ inLoad = {}
    /\ det = [w \in Workers |-> DetIdle]

\* One worker serving /tts-stream requests of every shape, one after another.
NextTts ==
    \/ \E w \in Sequential, req \in AllRequests : TtsBegin(w, req, 0..MaxPayload)
    \/ \E w \in Sequential : MmsCheck(w)
    \/ \E w \in Sequential : MmsLoad(w)
    \/ \E w \in Sequential : MmsStore(w)
    \/ \E w \in Sequential : MmsRead(w)
    \/ \E w \in Sequential : MmsInfer(w)
    \/ \E w \in Sequential : TtsFinish(w)
    \/ \E w \in Sequential : TtsReturn(w)
SpecTts == Init /\ [][NextTts]_vars

\* All workers serving well-formed /tts-stream requests concurrently.
NextCache ==
    \/ \E w \in Workers, req \in PlainRequests : TtsBegin(w, req, {1})
    \/ \E w \in Workers : MmsCheck(w)
    \/ \E w \in Workers : MmsLoad(w)
    \/ \E w \in Workers : MmsStore(w)
    \/ \E w \in Workers : MmsRead(w)
    \/ \E w \in Workers : MmsInfer(w)
    \/ \E w \in Workers : TtsFinish(w)
    \/ \E w \in Workers : TtsReturn(w)
SpecCache == Init /\ [][NextCache]_vars

\* One worker serving /detect-language requests of every shape, the
\* classifier answering anything.
NextDetect ==
    \/ \E w \in Sequential, req \in AllDetRequests : DetBegin(w, req, "all")
    \/ \E w \in Sequential : LoadStart(w)
    \/ \E w \in Sequential : LoadFastReturn(w)
    \/ \E w \in Sequential : LoadAcquire(w)
    \/ \E w \in Sequential : LoadCall(w)
    \/ \E w \in Sequential : LoadDone(w)
    \/ \E w \in Sequential : LoadRelease(w)
    \/ \E w \in Sequential : LoadReturn(w)
    \/ \E w \in Sequential : Classify(w)
    \/ \E w \in Sequential : DetReturn(w)
SpecDetect == Init /\ [][NextDetect]_vars

\* All workers calling detectLanguage concurrently.
NextLoad ==
    \/ \E w \in Workers, req \in PlainDetRequests : DetBegin(w, req, "plain")
    \/ \E w \in Workers : LoadStart(w)
    \/ \E w \in Workers : LoadFastReturn(w)
    \/ \E w \in Workers : LoadAcquire(w)
    \/ \E w \in Workers : LoadCall(w)
    \/ \E w \in Workers : LoadDone(w)
    \/ \E w \in Workers : LoadRelease(w)
    \/ \E w \in Workers : LoadReturn(w)
    \/ \E w \in Workers : Classify(w)
    \/ \E w \in Workers : DetReturn(w)
SpecLoad == Init /\ [][NextLoad]_vars

====
